---------------------------- MODULE Spec2Model ----------------------------
(***************************************************************************)
(* A model of the design-pattern calculator: the operation classes         *)
(* (template method), the OperationFactory, the Calculation record, the    *)
(* CalculatorWithObserver, the SingletonCalculator and the REPL of         *)
(* app/main.py.                                                            *)
(*                                                                         *)
(* Python values are tagged records.  A float is kept as an exact          *)
(* fraction n/d together with the sign of zero; the rounding of binary     *)
(* floating point is not modelled.  A str is the sequence of its           *)
(* characters.  A function of the program is an operator that returns a    *)
(* record: the exception it raised (if any), the value it returned and     *)
(* the sequence of calls and log lines it made, in order.                  *)
(***************************************************************************)
EXTENDS Integers, Sequences, FiniteSets

(***************************************************************************)
(* Bounds of the model.                                                    *)
(***************************************************************************)
MaxInt == 2          \* operands of the direct calls range over -MaxInt..MaxInt
MaxHistory == 2      \* records a history may hold before recording is stopped
MaxObservers == 3    \* calls of add_observer
MaxHandles == 2      \* constructions of SingletonCalculator

VARIABLES
  history,      \* CalculatorWithObserver._history of the instance `calc`
  observers,    \* CalculatorWithObserver._observers of the instance `calc`
  instance,     \* SingletonCalculator._instance: 0 is None, else the object
  clsHistory,   \* SingletonCalculator._history (set by the first construction)
  handles,      \* the objects the constructions SingletonCalculator() returned
  nextId,       \* the next object identity to allocate
  repl,         \* the REPL loop: "off", "running", "exited" or "crashed"
  out,          \* the lines the last REPL command printed
  call,         \* the last top-level call and its arguments
  ret,          \* what that call returned or raised
  trace         \* the calls and log lines that call made, in order

vars == <<history, observers, instance, clsHistory, handles, nextId,
          repl, out, call, ret, trace>>

(***************************************************************************)
(* Python values.                                                          *)
(***************************************************************************)
RECURSIVE Gcd(_, _)
Gcd(a, b) == IF b = 0 THEN a ELSE Gcd(b, a % b)

Abs(n) == IF n < 0 THEN -n ELSE n

IntV(n) == [t |-> "int", n |-> n, d |-> 1, z |-> FALSE, s |-> <<>>]

\* The float n/d in lowest terms; z is the sign bit of a zero.  A float that
\* is not finite has d = 0: 1/0 is inf, -1/0 is -inf and 0/0 is nan.
FloatV(n, d, z) ==
  LET g == IF n = 0 /\ d = 0 THEN 1 ELSE Gcd(Abs(n), Abs(d))
      sg == IF d < 0 THEN -1 ELSE 1
  IN  [t |-> "float", n |-> (sg * n) \div g, d |-> Abs(d) \div g,
       z |-> (n = 0 /\ d # 0 /\ z), s |-> <<>>]

Inf == FloatV(1, 0, FALSE)
NegInf == FloatV(-1, 0, FALSE)
NaN == FloatV(0, 0, FALSE)

StrV(chars) == [t |-> "str", n |-> 0, d |-> 1, z |-> FALSE, s |-> chars]

NoneV == [t |-> "NoneType", n |-> 0, d |-> 1, z |-> FALSE, s |-> <<>>]

\* isinstance(x, (int, float))
IsNumber(x) == x.t \in {"int", "float"}

\* the sign bit of a number (an int zero is +0.0 once converted)
IsNeg(x) == x.n < 0 \/ (x.n = 0 /\ x.z)

\* x == 0
EqZero(x) == IsNumber(x) /\ x.n = 0 /\ x.d # 0

\* math.isinf(x)
IsInf(x) == IsNumber(x) /\ x.d = 0 /\ x.n # 0

(***************************************************************************)
(* Exceptions and the result of a function.                                *)
(***************************************************************************)
NoExc == [type |-> "", msg |-> ""]
Exc(type, msg) == [type |-> type, msg |-> msg]

InvalidOperand == Exc("ValueError", "Both inputs must be numbers.")
DivisionByZero == Exc("ValueError", "Division by zero is not allowed.")
TypeError == Exc("TypeError", "unsupported operand type(s)")
ZeroDivisionError == Exc("ZeroDivisionError", "division by zero")

Returned(v, evs) == [raised |-> NoExc, value |-> v, events |-> evs]
Raised(x, evs) == [raised |-> x, value |-> NoneV, events |-> evs]
Ok(r) == r.raised = NoExc

\* One entry of a trace: a call (e is the method's name) or a log line
\* (e is "log" and who its text).
Event(e, who, cls, a, b, r) ==
  [e |-> e, who |-> who, cls |-> cls, a |-> a, b |-> b, r |-> r]
LogLine(text) == Event("log", text, "", NoneV, NoneV, NoneV)

(***************************************************************************)
(* The arithmetic of Python's binary operators on these values.            *)
(***************************************************************************)
RECURSIVE Repeat(_, _)
Repeat(chars, k) == IF k <= 0 THEN <<>> ELSE chars \o Repeat(chars, k - 1)

\* a + b
PyAdd(a, b) ==
  IF a.t = "int" /\ b.t = "int" THEN Returned(IntV(a.n + b.n), <<>>)
  ELSE IF IsInf(a) /\ IsInf(b) /\ a = b THEN Returned(a, <<>>)
  ELSE IF IsNumber(a) /\ IsNumber(b)
  THEN Returned(FloatV(a.n * b.d + b.n * a.d, a.d * b.d,
                       EqZero(a) /\ EqZero(b) /\ IsNeg(a) /\ IsNeg(b)), <<>>)
  ELSE IF a.t = "str" /\ b.t = "str" THEN Returned(StrV(a.s \o b.s), <<>>)
  ELSE Raised(TypeError, <<>>)

\* a - b
PySub(a, b) ==
  IF a.t = "int" /\ b.t = "int" THEN Returned(IntV(a.n - b.n), <<>>)
  ELSE IF IsInf(a) /\ IsInf(b) /\ a # b THEN Returned(a, <<>>)
  ELSE IF IsNumber(a) /\ IsNumber(b)
  THEN Returned(FloatV(a.n * b.d - b.n * a.d, a.d * b.d,
                       EqZero(a) /\ EqZero(b) /\ IsNeg(a) /\ ~IsNeg(b)), <<>>)
  ELSE Raised(TypeError, <<>>)

\* a * b
PyMul(a, b) ==
  IF a.t = "int" /\ b.t = "int" THEN Returned(IntV(a.n * b.n), <<>>)
  ELSE IF IsNumber(a) /\ IsNumber(b)
  THEN Returned(FloatV(a.n * b.n, a.d * b.d, IsNeg(a) # IsNeg(b)), <<>>)
  ELSE IF a.t = "str" /\ b.t = "int" THEN Returned(StrV(Repeat(a.s, b.n)), <<>>)
  ELSE IF a.t = "int" /\ b.t = "str" THEN Returned(StrV(Repeat(b.s, a.n)), <<>>)
  ELSE Raised(TypeError, <<>>)

\* a / b
PyTrueDiv(a, b) ==
  IF IsNumber(a) /\ IsNumber(b)
  THEN IF EqZero(b) THEN Raised(ZeroDivisionError, <<>>)
       ELSE IF IsInf(a) /\ b.d # 0
       THEN Returned(IF IsNeg(a) # IsNeg(b) THEN NegInf ELSE Inf, <<>>)
       ELSE Returned(FloatV(a.n * b.d, a.d * b.n, IsNeg(a) # IsNeg(b)), <<>>)
  ELSE Raised(TypeError, <<>>)

(***************************************************************************)
(* The operation classes (template method).                                *)
(***************************************************************************)
OperationClasses == {"Addition", "Subtraction", "Multiplication", "Division"}

\* Division.execute without its guard against a zero divisor
DivisionExecuteUnguarded(a, b) == PyTrueDiv(a, b)

\* Division.execute
DivisionExecute(a, b) ==
  IF EqZero(b)
  THEN Raised(DivisionByZero, <<LogLine("Attempted to divide by zero.")>>)
  ELSE PyTrueDiv(a, b)

\* Subtraction.execute with its operands swapped
SubtractionExecuteSwapped(a, b) == PySub(b, a)

\* Subtraction.execute
SubtractionExecute(a, b) == PySub(a, b)

\* execute of the class cls: the dynamic dispatch of self.execute(a, b)
execute(cls, a, b) ==
  CASE cls = "Addition" -> PyAdd(a, b)
    [] cls = "Subtraction" -> SubtractionExecute(a, b)
    [] cls = "Multiplication" -> PyMul(a, b)
    [] cls = "Division" -> DivisionExecute(a, b)

\* validate_inputs that looks at the first operand only
validate_inputs_first_only(a, b) ==
  IF ~IsNumber(a)
  THEN Raised(InvalidOperand, <<LogLine("Invalid input")>>)
  ELSE Returned(NoneV, <<>>)

\* TemplateOperation.validate_inputs
validate_inputs(a, b) ==
  IF ~IsNumber(a) \/ ~IsNumber(b)
  THEN Raised(InvalidOperand, <<LogLine("Invalid input")>>)
  ELSE Returned(NoneV, <<>>)

\* TemplateOperation.log_result
log_result(a, b, result) == Returned(NoneV, <<LogLine("Operation performed")>>)

\* The call of a method: the call is entered in the trace, then what the
\* method did.
Called(ev, r) ==
  [raised |-> r.raised, value |-> r.value, events |-> <<ev>> \o r.events]

\* Statement r and then statement k.  k runs only if r raised nothing, and
\* the pair returns what k returns.
Then(r, k) ==
  IF Ok(r)
  THEN [raised |-> k.raised, value |-> k.value, events |-> r.events \o k.events]
  ELSE r

\* `return v` after the statements r
Return(r, v) == IF Ok(r) THEN Returned(v, r.events) ELSE r

\* steps 3 and 4 of calculate, x being what self.execute(a, b) did
calculate_log_return(cls, a, b, x) ==
  Return(Then(x, Called(Event("log_result", "", cls, a, b, x.value),
                        log_result(a, b, x.value))),
         x.value)

\* calculate that logs the result even when execute raised
calculate_log_always(cls, a, b) ==
  LET x == Called(Event("execute", "", cls, a, b, NoneV), execute(cls, a, b))
      v == Called(Event("validate_inputs", "", cls, a, b, NoneV), validate_inputs(a, b))
      l == Called(Event("log_result", "", cls, a, b, x.value), log_result(a, b, x.value))
  IN  [raised |-> IF Ok(v) THEN x.raised ELSE v.raised,
       value |-> x.value,
       events |-> v.events \o x.events \o l.events]

\* TemplateOperation.calculate: validate, execute, log, return the result
calculate(cls, a, b) ==
  Then(Called(Event("validate_inputs", "", cls, a, b, NoneV), validate_inputs(a, b)),
       calculate_log_return(cls, a, b,
         Called(Event("execute", "", cls, a, b, NoneV), execute(cls, a, b))))

(***************************************************************************)
(* Strings: str.lower(), and the text of a value inside an f-string.       *)
(***************************************************************************)
UpperCase == <<"A", "B", "C", "D", "E", "F", "G", "H", "I", "J", "K", "L", "M", "N", "O", "P", "Q", "R", "S", "T", "U", "V", "W", "X", "Y", "Z">>
LowerCase == <<"a", "b", "c", "d", "e", "f", "g", "h", "i", "j", "k", "l", "m", "n", "o", "p", "q", "r", "s", "t", "u", "v", "w", "x", "y", "z">>

IsUpper(c) == \E i \in 1..26 : UpperCase[i] = c
IsLower(c) == \E i \in 1..26 : LowerCase[i] = c
LowerChar(c) == IF IsUpper(c) THEN LowerCase[CHOOSE i \in 1..26 : UpperCase[i] = c] ELSE c
UpperChar(c) == IF IsLower(c) THEN UpperCase[CHOOSE i \in 1..26 : LowerCase[i] = c] ELSE c

\* str.lower()
lower(chars) == [i \in 1..Len(chars) |-> LowerChar(chars[i])]

Digits == <<"0", "1", "2", "3", "4", "5", "6", "7", "8", "9">>

RECURSIVE NatStr(_)
NatStr(n) == IF n < 10 THEN <<Digits[n + 1]>> ELSE NatStr(n \div 10) \o <<Digits[(n % 10) + 1]>>

\* str(n) of an int
IntStr(n) == IF n < 0 THEN <<"-">> \o NatStr(-n) ELSE NatStr(n)

RECURSIVE Strip(_, _)
Strip(d, p) == IF d % p = 0 THEN Strip(d \div p, p) ELSE d

RECURSIVE FracStr(_, _)
FracStr(r, d) == IF r = 0 THEN <<>> ELSE <<Digits[((r * 10) \div d) + 1]>> \o FracStr((r * 10) % d, d)

\* repr of a float.  A fraction with a finite decimal expansion prints as that
\* expansion; of any other fraction (1/3) the digits of the nearest double are
\* not computed, and the text keeps the fraction between marks.
FloatStr(x) ==
  LET sign == IF IsNeg(x) THEN <<"-">> ELSE <<>>
      m == Abs(x.n)
  IN  IF x.d = 0 THEN (IF x.n = 0 THEN <<"n", "a", "n">> ELSE sign \o <<"i", "n", "f">>)
      ELSE IF x.d = 1 THEN sign \o NatStr(m) \o <<".", "0">>
      ELSE IF Strip(Strip(x.d, 2), 5) = 1
      THEN sign \o NatStr(m \div x.d) \o <<".">> \o FracStr(m % x.d, x.d)
      ELSE sign \o <<"{">> \o NatStr(m) \o <<"/">> \o NatStr(x.d) \o <<"}">>

\* the class names of the operations, as text
ClassName(cls) ==
  CASE cls = "Addition" -> <<"A", "d", "d", "i", "t", "i", "o", "n">>
    [] cls = "Subtraction" -> <<"S", "u", "b", "t", "r", "a", "c", "t", "i", "o", "n">>
    [] cls = "Multiplication" -> <<"M", "u", "l", "t", "i", "p", "l", "i", "c", "a", "t", "i", "o", "n">>
    [] cls = "Division" -> <<"D", "i", "v", "i", "s", "i", "o", "n">>
    [] OTHER -> <<"N", "o", "n", "e", "T", "y", "p", "e">>

\* format(x, ""), the text of {x} inside an f-string
Format(x) ==
  CASE x.t = "int" -> IntStr(x.n)
    [] x.t = "float" -> FloatStr(x)
    [] x.t = "str" -> x.s
    [] x.t = "NoneType" -> <<"N", "o", "n", "e">>
    [] OTHER -> <<"<">> \o ClassName(x.t) \o <<">">>

(***************************************************************************)
(* OperationFactory.                                                       *)
(***************************************************************************)
\* an instance of an operation class: the classes hold no state
Operation(cls) == [t |-> cls, n |-> 0, d |-> 1, z |-> FALSE, s |-> <<>>]

IsOperation(x) == x.t \in OperationClasses

NameAdd == <<"a", "d", "d">>
NameSubtract == <<"s", "u", "b", "t", "r", "a", "c", "t">>
NameMultiply == <<"m", "u", "l", "t", "i", "p", "l", "y">>
NameDivide == <<"d", "i", "v", "i", "d", "e">>

\* operations_map.get(key): None for a key the map does not hold
operations_map_get(key) ==
  CASE key = NameAdd -> Operation("Addition")
    [] key = NameSubtract -> Operation("Subtraction")
    [] key = NameMultiply -> Operation("Multiplication")
    [] key = NameDivide -> Operation("Division")
    [] OTHER -> NoneV

\* create_operation that looks the name up as it was given
create_operation_case_sensitive(operation) ==
  Returned(operations_map_get(operation), <<LogLine("Creating operation for")>>)

\* OperationFactory.create_operation
create_operation(operation) ==
  Returned(operations_map_get(lower(operation)), <<LogLine("Creating operation for")>>)

(***************************************************************************)
(* Calculation.                                                            *)
(***************************************************************************)
Calculation(operation, operand1, operand2) ==
  [operation |-> operation, operand1 |-> operand1, operand2 |-> operand2]

AttributeError == Exc("AttributeError", "object has no attribute 'calculate'")

\* self.operation.calculate(self.operand1, self.operand2)
operation_calculate(operation, a, b) ==
  IF IsOperation(operation) THEN calculate(operation.t, a, b)
  ELSE Raised(AttributeError, <<>>)

\* the text of __repr__
repr_text(c) ==
  <<"C", "a", "l", "c", "u", "l", "a", "t", "i", "o", "n", "(">> \o Format(c.operand1) \o <<",", " ">>
    \o lower(ClassName(c.operation.t)) \o <<",", " ">>
    \o Format(c.operand2) \o <<")">>

\* the text of __str__ with the class name as it is written
str_text_name_not_lowered(c, r) ==
  Format(c.operand1) \o <<" ">> \o ClassName(c.operation.t) \o <<" ">>
    \o Format(c.operand2) \o <<" ", "=", " ">> \o Format(r.value)

\* the text of __str__, r being what calculate returned
str_text(c, r) ==
  Format(c.operand1) \o <<" ">> \o lower(ClassName(c.operation.t)) \o <<" ">>
    \o Format(c.operand2) \o <<" ", "=", " ">> \o Format(r.value)

\* the return statement of __str__, r being what calculate did
str_return(c, r) == Return(r, StrV(str_text(c, r)))

\* __repr__ that evaluates the operation, as __str__ does
Calculation_repr_evaluating(c) ==
  Return(operation_calculate(c.operation, c.operand1, c.operand2), StrV(repr_text(c)))

\* Calculation.__repr__
Calculation_repr(c) == Returned(StrV(repr_text(c)), <<>>)

\* __str__ that shows no result and so evaluates nothing
Calculation_str_lazy(c) == Returned(StrV(repr_text(c)), <<>>)

\* what a call gives when nothing of it is run again
Memoized(r) == [raised |-> r.raised, value |-> r.value, events |-> <<>>]

\* __str__ that keeps the text of its first call
Calculation_str_memoized(c) ==
  Memoized(str_return(c, operation_calculate(c.operation, c.operand1, c.operand2)))

\* Calculation.__str__
Calculation_str(c) ==
  str_return(c, operation_calculate(c.operation, c.operand1, c.operand2))

(***************************************************************************)
(* HistoryObserver and CalculatorWithObserver.                             *)
(***************************************************************************)
\* the result of a method that also changes the history it works on
WithHistory(r, h) ==
  [raised |-> r.raised, value |-> r.value, events |-> r.events, history |-> h]

\* logging that is handed the calculation and does not render it
log_calculation_unrendered(text, c) == Returned(NoneV, <<LogLine(text)>>)

\* logging at some level of an f-string that holds {calculation}: the
\* calculation is rendered, then the line is logged
log_calculation(text, c) == Then(Calculation_str(c), Returned(NoneV, <<LogLine(text)>>))

\* HistoryObserver.update
update(observer, c) ==
  Called(Event("update", observer, c.operation.t, c.operand1, c.operand2, NoneV),
         log_calculation("Observer: New calculation added", c))

\* an observer that is not a HistoryObserver: its update raises
RaisingObserver == "raising"
ObserverError == Exc("RuntimeError", "observer failed")

\* observer.update(calculation), whatever object the list holds
observer_update(observer, c) ==
  IF observer = RaisingObserver
  THEN Called(Event("update", observer, c.operation.t, c.operand1, c.operand2, NoneV),
              Raised(ObserverError, <<>>))
  ELSE update(observer, c)

\* try: ... except Exception: pass
Caught(r) == IF Ok(r) THEN r ELSE Returned(NoneV, r.events)

\* the loop of notify_observers with each update in a try that swallows
\* what the observer raises
RECURSIVE notify_from_catching(_, _, _)
notify_from_catching(obs, i, c) ==
  IF i > Len(obs) THEN Returned(NoneV, <<>>)
  ELSE Then(Then(Caught(observer_update(obs[i], c)),
                 Caught(log_calculation("Notified observer about", c))),
            notify_from_catching(obs, i + 1, c))

\* the loop of notify_observers from the i-th observer on
RECURSIVE notify_from(_, _, _)
notify_from(obs, i, c) ==
  IF i > Len(obs) THEN Returned(NoneV, <<>>)
  ELSE Then(Then(observer_update(obs[i], c), log_calculation("Notified observer about", c)),
            notify_from(obs, i + 1, c))

\* the observers without the later copies of one already held
RECURSIVE Distinct(_)
Distinct(obs) ==
  IF obs = <<>> THEN <<>>
  ELSE LET front == Distinct(SubSeq(obs, 1, Len(obs) - 1))
           last == obs[Len(obs)]
       IN  IF \E i \in 1..Len(front) : front[i] = last THEN front ELSE Append(front, last)

\* notify_observers that tells each distinct observer once
notify_observers_dedup(obs, c) == notify_from(Distinct(obs), 1, c)

\* notify_observers that starts from the last observer
notify_observers_reversed(obs, c) ==
  notify_from([i \in 1..Len(obs) |-> obs[Len(obs) + 1 - i]], 1, c)

\* CalculatorWithObserver.notify_observers
notify_observers(obs, c) == notify_from(obs, 1, c)

\* CalculatorWithObserver.add_observer: the list of observers after the call
add_observer(obs, observer) == Append(obs, observer)

\* self._history.append(calculation) that puts the record first
history_append_front(h, c) == <<c>> \o h

\* self._history.append(calculation)
history_append(h, c) == Append(h, c)

\* perform_operation that calculates the result first and records it after
perform_operation_calculate_first(obs, c) ==
  Return(Then(Then(operation_calculate(c.operation, c.operand1, c.operand2),
                   Called(Event("append", "", c.operation.t, c.operand1, c.operand2, NoneV),
                          notify_observers(obs, c))),
              log_calculation("Performed operation", c)),
         operation_calculate(c.operation, c.operand1, c.operand2).value)

\* the statements of perform_operation after the append
perform_operation_body(obs, c) ==
  Then(Then(Called(Event("append", "", c.operation.t, c.operand1, c.operand2, NoneV),
                   notify_observers(obs, c)),
            log_calculation("Performed operation", c)),
       operation_calculate(c.operation, c.operand1, c.operand2))

\* CalculatorWithObserver.perform_operation
perform_operation(h, obs, operation, a, b) ==
  WithHistory(perform_operation_body(obs, Calculation(operation, a, b)),
              history_append(h, Calculation(operation, a, b)))

(***************************************************************************)
(* SingletonCalculator.                                                    *)
(***************************************************************************)
\* the class attributes _instance and _history, and the allocator
ClassState(inst, h, next) == [instance |-> inst, history |-> h, nextId |-> next]

\* __new__ that initialises the history outside the test for None
Singleton_new_reset(cs) ==
  IF cs.instance = 0
  THEN [cls |-> ClassState(cs.nextId, <<>>, cs.nextId + 1), value |-> cs.nextId,
        events |-> <<LogLine("SingletonCalculator instance created.")>>]
  ELSE [cls |-> ClassState(cs.instance, <<>>, cs.nextId), value |-> cs.instance,
        events |-> <<>>]

\* SingletonCalculator.__new__: the class state after it and the object returned
Singleton_new(cs) ==
  IF cs.instance = 0
  THEN [cls |-> ClassState(cs.nextId, <<>>, cs.nextId + 1), value |-> cs.nextId,
        events |-> <<LogLine("SingletonCalculator instance created.")>>]
  ELSE [cls |-> cs, value |-> cs.instance, events |-> <<>>]

\* the statements of SingletonCalculator.perform_operation after the append
Singleton_perform_operation_body(c) ==
  Then(Called(Event("append", "", c.operation.t, c.operand1, c.operand2, NoneV),
              log_calculation("SingletonCalculator: Performed operation", c)),
       operation_calculate(c.operation, c.operand1, c.operand2))

\* SingletonCalculator.perform_operation
Singleton_perform_operation(h, operation, a, b) ==
  WithHistory(Singleton_perform_operation_body(Calculation(operation, a, b)),
              history_append(h, Calculation(operation, a, b)))

\* get_history that returns a copy of the list
get_history_copy == "copy"

\* SingletonCalculator.get_history: which list the caller is handed, the one
\* the class attribute names ("shared") or a copy of it ("copy").  The
\* debugger breakpoint in it is taken to be continued.
get_history == "shared"

\* list.clear() on the list get_history returned: the class's history after it
get_history_clear(h) == IF get_history = "shared" THEN <<>> ELSE h

(***************************************************************************)
(* The REPL of calculator().                                               *)
(***************************************************************************)
\* print(text) or print(f"{text}{arg}"): a printed line is a fixed text and
\* the characters that follow it
Stdout(text, arg) == Event("print", text, "", NoneV, NoneV, StrV(arg))

\* str.split(): the maximal runs of characters other than blanks
RECURSIVE split_from(_, _, _, _)
split_from(chars, i, word, words) ==
  IF i > Len(chars) THEN (IF word = <<>> THEN words ELSE Append(words, word))
  ELSE IF chars[i] = " "
  THEN split_from(chars, i + 1, <<>>, IF word = <<>> THEN words ELSE Append(words, word))
  ELSE split_from(chars, i + 1, Append(word, chars[i]), words)

split(chars) == split_from(chars, 1, <<>>, <<>>)

IsDigit(c) == \E i \in 1..10 : Digits[i] = c
DigitValue(c) == (CHOOSE i \in 1..10 : Digits[i] = c) - 1
AllDigits(chars) == \A i \in 1..Len(chars) : IsDigit(chars[i])

RECURSIVE NatValue(_)
NatValue(chars) ==
  IF chars = <<>> THEN 0
  ELSE NatValue(SubSeq(chars, 1, Len(chars) - 1)) * 10 + DigitValue(chars[Len(chars)])

RECURSIVE Pow10(_)
Pow10(k) == IF k = 0 THEN 1 ELSE 10 * Pow10(k - 1)

CouldNotConvert == Exc("ValueError", "could not convert string to float")
UnpackError == Exc("ValueError", "wrong number of values to unpack")

\* float(text) of an unsigned decimal numeral: digits with at most one point
float_decimal(chars, negative) ==
  LET dots == {i \in 1..Len(chars) : chars[i] = "."}
      dot == IF dots = {} THEN Len(chars) + 1 ELSE CHOOSE i \in dots : TRUE
      whole == SubSeq(chars, 1, dot - 1)
      frac == SubSeq(chars, dot + 1, Len(chars))
  IN  IF Cardinality(dots) <= 1 /\ AllDigits(whole) /\ AllDigits(frac)
         /\ Len(whole) + Len(frac) > 0
      THEN Returned(FloatV((IF negative THEN -1 ELSE 1)
                             * (NatValue(whole) * Pow10(Len(frac)) + NatValue(frac)),
                           Pow10(Len(frac)), negative), <<>>)
      ELSE Raised(CouldNotConvert, <<>>)

\* float(text) of an unsigned numeral: "inf", "infinity" or "nan" in any
\* casing, or digits with at most one point
float_unsigned(chars, negative) ==
  IF lower(chars) \in {<<"i", "n", "f">>, <<"i", "n", "f", "i", "n", "i", "t", "y">>}
  THEN Returned(IF negative THEN NegInf ELSE Inf, <<>>)
  ELSE IF lower(chars) = <<"n", "a", "n">> THEN Returned(NaN, <<>>)
  ELSE float_decimal(chars, negative)

\* float(text) for the numerals the model types in: an optional sign, then
\* "inf", "infinity", "nan" or digits with at most one point.  Exponents and
\* underscores are not among the inputs.
float(chars) ==
  IF chars # <<>> /\ chars[1] \in {"-", "+"}
  THEN float_unsigned(Tail(chars), chars[1] = "-")
  ELSE float_unsigned(chars, FALSE)

CmdHelp == <<"h", "e", "l", "p">>
CmdExit == <<"e", "x", "i", "t">>
CmdList == <<"l", "i", "s", "t">>
CmdClear == <<"c", "l", "e", "a", "r">>

\* the "help" command
repl_help ==
  Returned(NoneV, <<Stdout("Available commands:", <<>>),
                    Stdout("  add <num1> <num2>       : Add two numbers.", <<>>),
                    Stdout("  subtract <num1> <num2>  : Subtract the second number from the first.", <<>>),
                    Stdout("  multiply <num1> <num2>  : Multiply two numbers.", <<>>),
                    Stdout("  divide <num1> <num2>    : Divide the first number by the second (cannot divide by zero).", <<>>),
                    Stdout("  list                    : Show the calculation history.", <<>>),
                    Stdout("  clear                   : Clear the calculation history.", <<>>),
                    Stdout("  exit                    : Exit the calculator.", <<>>)>>)

\* print(calc_item), s being what str(calc_item) did
print_calculation(s) == Then(s, Returned(NoneV, <<Stdout("", s.value.s)>>))

\* the loop of the "list" command from the i-th record on
RECURSIVE list_from(_, _)
list_from(h, i) ==
  IF i > Len(h) THEN Returned(NoneV, <<>>)
  ELSE Then(print_calculation(Calculation_str(h[i])), list_from(h, i + 1))

\* the "list" command
repl_list(h) ==
  IF h = <<>> THEN Returned(NoneV, <<Stdout("No calculations in history.", <<>>)>>)
  ELSE list_from(h, 1)

\* "clear" that leaves the list as it is
repl_clear_history_kept(h) ==
  WithHistory(Returned(NoneV, <<LogLine("History cleared."),
                                Stdout("History cleared.", <<>>)>>), h)

\* "clear" that removes the last record only
repl_clear_last_only(h) ==
  WithHistory(Returned(NoneV, <<LogLine("History cleared."),
                                Stdout("History cleared.", <<>>)>>),
              SubSeq(h, 1, Len(h) - 1))

\* the "clear" command
repl_clear(h) ==
  WithHistory(Returned(NoneV, <<LogLine("History cleared."),
                                Stdout("History cleared.", <<>>)>>), <<>>)

\* print(f"Result: {result}"), p being what perform_operation did
repl_result(p) ==
  WithHistory(Then(p, Returned(NoneV, <<Stdout("Result: ", Format(p.value))>>)),
              p.history)

\* the dispatch without the test of what the factory returned
repl_dispatch_unchecked(h, obs, operation_str, f, num1, num2) ==
  repl_result(WithHistory(
    Then(f, perform_operation_body(obs, Calculation(f.value, num1, num2))),
    history_append(h, Calculation(f.value, num1, num2))))

\* `if operation: ... else: ...`, f being what create_operation did
repl_dispatch(h, obs, operation_str, f, num1, num2) ==
  IF IsOperation(f.value)
  THEN repl_result(WithHistory(
         Then(f, perform_operation_body(obs, Calculation(f.value, num1, num2))),
         history_append(h, Calculation(f.value, num1, num2))))
  ELSE WithHistory(Then(f, Returned(NoneV,
         <<Stdout("Unknown operation '%s'. Type 'help' for available commands.",
                 operation_str)>>)), h)

\* the body of the try block once the line is split in three, f1 and f2
\* being what float(num1) and float(num2) did
repl_try_parsed(h, obs, operation_str, f1, f2) ==
  IF ~Ok(f1) THEN WithHistory(f1, h)
  ELSE IF ~Ok(f2) THEN WithHistory(f2, h)
  ELSE repl_dispatch(h, obs, operation_str, create_operation(operation_str),
                     f1.value, f2.value)

\* the body of the try block, words being user_input.split()
repl_try(h, obs, words) ==
  IF Len(words) # 3 THEN WithHistory(Raised(UnpackError, <<>>), h)
  ELSE repl_try_parsed(h, obs, words[1], float(words[2]), float(words[3]))

\* an except clause that names ZeroDivisionError in place of ValueError
repl_except_zero_division(r) ==
  IF r.raised.type = "ZeroDivisionError"
  THEN WithHistory(Returned(NoneV, r.events \o
         <<LogLine("Invalid input or error"),
           Stdout("Invalid input. Please enter a valid operation and two numbers. Type 'help' for instructions.", <<>>)>>),
         r.history)
  ELSE r

\* `except ValueError as e:`, r being what the try block did
repl_except(r) ==
  IF r.raised.type = "ValueError"
  THEN WithHistory(Returned(NoneV, r.events \o
         <<LogLine("Invalid input or error"),
           Stdout("Invalid input. Please enter a valid operation and two numbers. Type 'help' for instructions.", <<>>)>>),
         r.history)
  ELSE r

\* one turn of the loop of calculator() on the line user_input
repl_command(h, obs, user_input) ==
  CASE lower(user_input) = CmdHelp -> WithHistory(repl_help, h)
    [] lower(user_input) = CmdExit ->
         WithHistory(Returned(NoneV, <<Stdout("Exiting calculator...", <<>>)>>), h)
    [] lower(user_input) = CmdList -> WithHistory(repl_list(h), h)
    [] lower(user_input) = CmdClear -> repl_clear(h)
    [] OTHER -> repl_except(repl_try(h, obs, split(user_input)))

\* the loop after the turn: left by "exit", ended by an exception nothing
\* catches, else waiting for the next line
repl_after(user_input, r) ==
  IF ~Ok(r) THEN "crashed"
  ELSE IF lower(user_input) = CmdExit THEN "exited"
  ELSE "running"

\* what was printed, from a trace
Printed(evs) == SelectSeq(evs, LAMBDA ev : ev.e = "print")

(***************************************************************************)
(* The inputs the model draws.                                             *)
(***************************************************************************)
Ints == {IntV(n) : n \in -MaxInt..MaxInt}

\* the halves between -MaxInt/2 and MaxInt/2, and the negative zero
Floats == {FloatV(n, 2, FALSE) : n \in -MaxInt..MaxInt} \cup {FloatV(0, 1, TRUE)}

Numbers == Ints \cup Floats

NonNumbers == {StrV(<<"a">>), StrV(<<>>), NoneV}

OperandValues == Numbers \cup NonNumbers

\* the floats that are not finite
NonFinite == {Inf, NegInf, NaN}

\* texts given to float(), numerals and others
NumeralTexts ==
  {<<"5">>, <<"-", "1", ".", "5">>, <<"+", "0", ".", "2", "5">>, <<".", "5">>, <<"5", ".">>,
   <<"-", "0">>, <<"0", "0", "7">>,
   <<"n", "a", "n">>, <<"N", "a", "N">>, <<"-", "n", "a", "n">>,
   <<"i", "n", "f">>, <<"-", "i", "n", "f">>, <<"+", "I", "N", "F">>,
   <<"i", "n", "f", "i", "n", "i", "t", "y">>, <<"-", "I", "n", "f", "i", "n", "i", "t", "y">>,
   <<>>, <<".">>, <<"-">>, <<"a", "b", "c">>, <<"1", ".", "2", ".", "3">>, <<"i", "n">>,
   <<"5", "a">>, <<"-", "-", "5">>, <<"n", "a", "n", "s">>}

\* every way of writing the word in upper and lower case
Casings(word) ==
  {[i \in 1..Len(word) |-> IF i \in S THEN UpperChar(word[i]) ELSE word[i]] :
     S \in SUBSET (1..Len(word))}

OperationNames == {NameAdd, NameSubtract, NameMultiply, NameDivide}

\* strings that name no operation
OtherNames ==
  UNION {Casings(w) : w \in {<<>>, <<"a", "d">>, <<"a", "d", "d", "s">>, <<"s", "u", "m">>, <<"p", "l", "u", "s">>, <<"a", "d", "d", "i", "t", "i", "o", "n">>, <<"d", "i", "v", "i", "d">>, <<"u", "n", "k", "n", "o", "w", "n">>, <<"a", "d", "d", " ">>, <<"+">>}}

FactoryNames == UNION {Casings(w) : w \in OperationNames} \cup OtherNames

\* the calls of perform_operation the calculators receive
PerformOperands == {<<IntV(MaxInt), IntV(1)>>, <<IntV(1), IntV(0)>>}

\* the lines typed at the REPL
ReplLines ==
  {<<"h", "e", "l", "p">>,
   <<"H", "E", "L", "P">>,
   <<"e", "x", "i", "t">>,
   <<"E", "x", "i", "t">>,
   <<"l", "i", "s", "t">>,
   <<"L", "i", "s", "t">>,
   <<"c", "l", "e", "a", "r">>,
   <<"C", "L", "E", "A", "R">>,
   <<" ", "l", "i", "s", "t">>,
   <<"h", "e", "l", "p", " ", "m", "e">>,
   <<>>,
   <<"a", "d", "d", " ", "5", " ", "3">>,
   <<"s", "u", "b", "t", "r", "a", "c", "t", " ", "5", " ", "3">>,
   <<"m", "u", "l", "t", "i", "p", "l", "y", " ", "5", " ", "3">>,
   <<"d", "i", "v", "i", "d", "e", " ", "5", " ", "2">>,
   <<"d", "i", "v", "i", "d", "e", " ", "5", " ", "0">>,
   <<"D", "i", "v", "i", "d", "e", " ", "5", " ", "2">>,
   <<"A", "D", "D", " ", "5", " ", "3">>,
   <<"u", "n", "k", "n", "o", "w", "n", " ", "1", " ", "1">>,
   <<"a", "d", "d", " ", "5", " ", "a", "b", "c">>,
   <<"a", "d", "d", " ", "a", "b", "c", " ", "5">>,
   <<"a", "d", "d", " ", "5">>,
   <<"a", "d", "d", " ", "5", " ", "3", " ", "1">>,
   <<"a", "d", "d", " ", " ", "5", " ", "3">>,
   <<"a", "d", "d", "i", "t", "i", "o", "n", " ", "5", " ", "3">>}

\* numerals for a dividend, each with the float it denotes
Dividends ==
  {<<<<"5">>, FloatV(5, 1, FALSE)>>,
   <<<<"0">>, FloatV(0, 1, FALSE)>>,
   <<<<"-", "1", ".", "5">>, FloatV(-3, 2, FALSE)>>,
   <<<<"+", "1", "0">>, FloatV(10, 1, FALSE)>>}

\* numerals for a zero divisor, each with the float it denotes
Zeros ==
  {<<<<"0">>, FloatV(0, 1, FALSE)>>,
   <<<<"0", ".", "0">>, FloatV(0, 1, FALSE)>>,
   <<<<"-", "0">>, FloatV(0, 1, TRUE)>>}

\* the lines "divide <a> <zero>", in two casings of the name
DivideByZeroLines ==
  {name \o <<" ">> \o a[1] \o <<" ">> \o z[1] :
     name \in {NameDivide, <<"D", "I", "V", "I", "D", "E">>}, a \in Dividends, z \in Zeros}

\* the lines typed at the REPL that is given divisions by zero
DivideLines ==
  DivideByZeroLines \cup {<<"a", "d", "d", " ", "5", " ", "3">>,
                          <<"d", "i", "v", "i", "d", "e", " ", "0", " ", "5">>,
                          <<"l", "i", "s", "t">>,
                          <<"c", "l", "e", "a", "r">>,
                          <<"e", "x", "i", "t">>}

ObserverIds == {"o1", "o2"}

(***************************************************************************)
(* The state machine.                                                      *)
(***************************************************************************)
\* A call: its name, the operation and operands it is about, its other
\* argument, and how many records the history it works on held before it.
Call(name, obj, a, b, arg, held) ==
  [name |-> name, obj |-> obj, a |-> a, b |-> b, arg |-> arg, held |-> held]

NoCall == Call("", NoneV, NoneV, NoneV, NoneV, 0)

\* record the call just made, what it returned or raised and what it did
Finish(c, r) ==
  /\ call' = c
  /\ ret' = [raised |-> r.raised, value |-> r.value]
  /\ trace' = r.events

\* no calculator exists yet and nothing has been called
Init ==
  /\ history = <<>>
  /\ observers = <<>>
  /\ instance = 0
  /\ clsHistory = <<>>
  /\ handles = <<>>
  /\ nextId = 1
  /\ repl = "off"
  /\ out = <<>>
  /\ call = NoCall
  /\ ret = [raised |-> NoExc, value |-> NoneV]
  /\ trace = <<>>

\* nothing has been called yet: a run of the pure functions makes one call
Fresh == call = NoCall

calcVars == <<history, observers>>
singletonVars == <<instance, clsHistory, handles, nextId>>
replVars == <<repl, out>>

\* operation.calculate(a, b) called directly
DoCalculate ==
  \E cls \in OperationClasses, a \in OperandValues, b \in OperandValues :
    /\ Fresh
    /\ Finish(Call("calculate", Operation(cls), a, b, NoneV, 0), calculate(cls, a, b))
    /\ UNCHANGED <<calcVars, singletonVars, replVars>>

\* OperationFactory.create_operation(name)
DoCreateOperation ==
  \E name \in FactoryNames :
    /\ Fresh
    /\ Finish(Call("create_operation", NoneV, NoneV, NoneV, StrV(name), 0),
              create_operation(name))
    /\ UNCHANGED <<calcVars, singletonVars, replVars>>

\* repr(Calculation(operation, a, b))
DoRepr ==
  \E cls \in OperationClasses, a \in OperandValues, b \in OperandValues :
    /\ Fresh
    /\ Finish(Call("__repr__", Operation(cls), a, b, NoneV, 0),
              Calculation_repr(Calculation(Operation(cls), a, b)))
    /\ UNCHANGED <<calcVars, singletonVars, replVars>>

\* str(Calculation(operation, a, b))
DoStr ==
  \E cls \in OperationClasses, a \in OperandValues, b \in OperandValues :
    /\ Fresh
    /\ Finish(Call("__str__", Operation(cls), a, b, NoneV, 0),
              Calculation_str(Calculation(Operation(cls), a, b)))
    /\ UNCHANGED <<calcVars, singletonVars, replVars>>

\* calc = CalculatorWithObserver(); calc.perform_operation(operation, a, b)
DoNewPerform ==
  \E cls \in OperationClasses, a \in OperandValues, b \in OperandValues :
    LET r == perform_operation(<<>>, <<>>, Operation(cls), a, b)
    IN  /\ Fresh
        /\ Finish(Call("perform_operation", Operation(cls), a, b, NoneV, 0), r)
        /\ history' = r.history
        /\ observers' = <<>>
        /\ UNCHANGED <<singletonVars, replVars>>

\* calc.add_observer(observer)
AddObserver ==
  \E o \in ObserverIds :
    /\ Len(observers) < MaxObservers
    /\ observers' = add_observer(observers, o)
    /\ Finish(Call("add_observer", NoneV, NoneV, NoneV, StrV(<<o>>), Len(history)),
              Returned(NoneV, <<LogLine("Observer added")>>))
    /\ UNCHANGED <<history, singletonVars, replVars>>

\* calc.perform_operation(operation, a, b)
PerformOperation ==
  \E cls \in OperationClasses, ab \in PerformOperands :
    LET r == perform_operation(history, observers, Operation(cls), ab[1], ab[2])
    IN  /\ Len(history) < MaxHistory
        /\ Finish(Call("perform_operation", Operation(cls), ab[1], ab[2], NoneV,
                       Len(history)), r)
        /\ history' = r.history
        /\ UNCHANGED <<observers, singletonVars, replVars>>

\* SingletonCalculator()
Construct ==
  LET r == Singleton_new(ClassState(instance, clsHistory, nextId))
  IN  /\ Len(handles) < MaxHandles
      /\ instance' = r.cls.instance
      /\ clsHistory' = r.cls.history
      /\ nextId' = r.cls.nextId
      /\ handles' = Append(handles, r.value)
      /\ Finish(Call("SingletonCalculator", NoneV, NoneV, NoneV, IntV(r.value),
                     Len(clsHistory)),
                Returned(IntV(r.value), r.events))
      /\ UNCHANGED <<calcVars, replVars>>

\* handle.perform_operation(operation, a, b), handle the k-th one constructed
SingletonPerform ==
  \E k \in 1..Len(handles), cls \in OperationClasses, ab \in PerformOperands :
    LET r == Singleton_perform_operation(clsHistory, Operation(cls), ab[1], ab[2])
    IN  /\ Len(clsHistory) < MaxHistory
        /\ Finish(Call("perform_operation", Operation(cls), ab[1], ab[2], IntV(k),
                       Len(clsHistory)), r)
        /\ clsHistory' = r.history
        /\ UNCHANGED <<instance, handles, nextId, calcVars, replVars>>

\* handle.get_history().clear()
SingletonClear ==
  \E k \in 1..Len(handles) :
    /\ clsHistory' = get_history_clear(clsHistory)
    /\ Finish(Call("get_history().clear", NoneV, NoneV, NoneV, IntV(k),
                   Len(clsHistory)),
              Returned(NoneV, <<>>))
    /\ UNCHANGED <<instance, handles, nextId, calcVars, replVars>>

\* calculator() up to its first prompt: a new calculator with one observer
InitRepl ==
  /\ history = <<>>
  /\ observers = add_observer(<<>>, "o1")
  /\ instance = 0
  /\ clsHistory = <<>>
  /\ handles = <<>>
  /\ nextId = 1
  /\ repl = "running"
  /\ out = <<Stdout("Welcome to the OOP Calculator! Type 'help' for available commands.", <<>>)>>
  /\ call = Call("calculator", NoneV, NoneV, NoneV, NoneV, 0)
  /\ ret = [raised |-> NoExc, value |-> NoneV]
  /\ trace = <<LogLine("Observer added")>>

\* one turn of the loop: the line read is user_input
ReplTurn(user_input) ==
  LET r == repl_command(history, observers, user_input)
  IN  /\ repl = "running"
      /\ Len(r.history) <= MaxHistory
      /\ Finish(Call("input", NoneV, NoneV, NoneV, StrV(user_input), Len(history)), r)
      /\ history' = r.history
      /\ out' = Printed(r.events)
      /\ repl' = repl_after(user_input, r)
      /\ UNCHANGED <<observers, singletonVars>>

\* the user types a line at the prompt
ReplInput == \E user_input \in ReplLines : ReplTurn(user_input)

\* the user types a line at the prompt, a division by zero most of the time
ReplDivideInput == \E user_input \in DivideLines : ReplTurn(user_input)

\* calc.add_observer(observer), observer a HistoryObserver or not
AddAnyObserver ==
  \E o \in ObserverIds \cup {RaisingObserver} :
    /\ Len(observers) < MaxObservers
    /\ observers' = add_observer(observers, o)
    /\ Finish(Call("add_observer", NoneV, NoneV, NoneV, StrV(<<o>>), Len(history)),
              Returned(NoneV, <<LogLine("Observer added")>>))
    /\ UNCHANGED <<history, singletonVars, replVars>>

\* operation.calculate(a, b) with an operand that is not finite
DoCalculateNonFinite ==
  \E cls \in OperationClasses, x \in NonFinite, y \in OperandValues \cup NonFinite,
     first \in BOOLEAN :
    /\ Fresh
    /\ Finish(Call("calculate", Operation(cls), IF first THEN x ELSE y,
                   IF first THEN y ELSE x, NoneV, 0),
              calculate(cls, IF first THEN x ELSE y, IF first THEN y ELSE x))
    /\ UNCHANGED <<calcVars, singletonVars, replVars>>

\* float(text)
DoFloat ==
  \E text \in NumeralTexts :
    /\ Fresh
    /\ Finish(Call("float", NoneV, NoneV, NoneV, StrV(text), 0), float(text))
    /\ UNCHANGED <<calcVars, singletonVars, replVars>>

NextOps ==
  \/ DoCalculate \/ DoCreateOperation \/ DoRepr \/ DoStr \/ DoNewPerform
  \/ DoCalculateNonFinite \/ DoFloat
SpecOps == Init /\ [][NextOps]_vars

NextCalc == AddObserver \/ PerformOperation
SpecCalc == Init /\ [][NextCalc]_vars

NextNotify == AddAnyObserver \/ PerformOperation
SpecNotify == Init /\ [][NextNotify]_vars

NextRepl == ReplInput
SpecRepl == InitRepl /\ [][NextRepl]_vars

NextReplDivide == ReplDivideInput
SpecReplDivide == InitRepl /\ [][NextReplDivide]_vars

NextSingleton == Construct \/ SingletonPerform \/ SingletonClear
SpecSingleton == Init /\ [][NextSingleton]_vars


(***************************************************************************)
(* The claims.                                                             *)
(***************************************************************************)
TemplateMethods == {"validate_inputs", "execute", "log_result"}

\* the calls of the methods named, in the order a trace holds them
CallsOf(evs, names) == SelectSeq(evs, LAMBDA ev : ev.e \in names)

\* the names of the template's steps a trace holds, in order
StepsOf(evs) ==
  [i \in 1..Len(CallsOf(evs, TemplateMethods)) |-> CallsOf(evs, TemplateMethods)[i].e]

\* the fractions n1/d1 and n2/d2 are the same number
SameNumber(n1, d1, n2, d2) == n1 * d2 = n2 * d1

Raises(x) == ret.raised = x /\ ret.value = NoneV
Returns(v) == ret.raised = NoExc /\ ret.value = v

\* C1: calculate(a, b) runs validate_inputs, then execute, then log_result,
\* each on its own operands, and returns what execute returned.  A failure
\* of validate_inputs or of execute reaches the caller, and nothing runs
\* after the step that failed: log_result runs only after execute succeeded
\* (and reports its result), execute only after the validation passed.
C1_TemplateOrder ==
  call.name = "calculate" =>
    /\ StepsOf(trace) \in {<<"validate_inputs">>,
                           <<"validate_inputs", "execute">>,
                           <<"validate_inputs", "execute", "log_result">>}
    /\ \A i \in 1..Len(trace) :
         trace[i].e \in TemplateMethods =>
           /\ trace[i].cls = call.obj.t
           /\ trace[i].a = call.a
           /\ trace[i].b = call.b
    /\ (ret.raised = NoExc) <=> (Len(StepsOf(trace)) = 3)
    /\ ret.raised = NoExc =>
         /\ Returns(execute(call.obj.t, call.a, call.b).value)
         /\ CallsOf(trace, {"log_result"})[1].r = ret.value
    /\ Len(StepsOf(trace)) = 1 => Raises(validate_inputs(call.a, call.b).raised)
    /\ Len(StepsOf(trace)) = 2 => Raises(execute(call.obj.t, call.a, call.b).raised)
    /\ (~IsNumber(call.a) \/ ~IsNumber(call.b)) => Len(StepsOf(trace)) = 1

C1_Witness ==
  /\ call.name = "calculate"
  /\ call.obj.t = "Division"
  /\ call.a = IntV(1)
  /\ call.b = IntV(2)
  /\ Returns(FloatV(1, 2, FALSE))
  /\ StepsOf(trace) = <<"validate_inputs", "execute", "log_result">>

\* C2: on numbers a and b, Addition.calculate returns a + b,
\* Subtraction.calculate a - b and Multiplication.calculate a * b (an int
\* when both operands are ints), and perform_operation returns that result.
C2_Arithmetic ==
  (call.name \in {"calculate", "perform_operation"}
     /\ IsNumber(call.a) /\ IsNumber(call.b)) =>
    /\ call.obj.t = "Addition" =>
         /\ ret.raised = NoExc
         /\ SameNumber(ret.value.n, ret.value.d,
                       call.a.n * call.b.d + call.b.n * call.a.d, call.a.d * call.b.d)
    /\ call.obj.t = "Subtraction" =>
         /\ ret.raised = NoExc
         /\ SameNumber(ret.value.n, ret.value.d,
                       call.a.n * call.b.d - call.b.n * call.a.d, call.a.d * call.b.d)
    /\ call.obj.t = "Multiplication" =>
         /\ ret.raised = NoExc
         /\ SameNumber(ret.value.n, ret.value.d,
                       call.a.n * call.b.n, call.a.d * call.b.d)
    /\ (call.obj.t # "Division" /\ call.a.t = "int" /\ call.b.t = "int") =>
         ret.value.t = "int"

C2_Witness ==
  /\ call.name = "perform_operation"
  /\ call.obj.t = "Subtraction"
  /\ call.a = IntV(1)
  /\ call.b = IntV(-1)
  /\ Returns(IntV(2))

\* C3: on numbers a and b, Division.calculate returns a / b when b is not 0;
\* when b is 0 it raises the ValueError "Division by zero is not allowed."
\* and returns nothing, execute having run once and log_result not at all.
\* __str__ and perform_operation pass that error on to their callers.
C3_Division ==
  (call.obj.t = "Division" /\ IsNumber(call.a) /\ IsNumber(call.b)) =>
    /\ (call.name = "calculate" /\ ~EqZero(call.b)) =>
         /\ ret.raised = NoExc
         /\ ret.value.t = "float"
         /\ SameNumber(ret.value.n, ret.value.d, call.a.n * call.b.d, call.a.d * call.b.n)
    /\ (call.name = "calculate" /\ EqZero(call.b)) =>
         /\ Raises(DivisionByZero)
         /\ StepsOf(trace) = <<"validate_inputs", "execute">>
    /\ (call.name \in {"__str__", "perform_operation"} /\ EqZero(call.b)) =>
         /\ Raises(DivisionByZero)
         /\ StepsOf(trace) = <<"validate_inputs", "execute">>

C3_Witness ==
  /\ call.name = "calculate"
  /\ call.obj.t = "Division"
  /\ call.a = IntV(1)
  /\ call.b = IntV(0)
  /\ Raises(DivisionByZero)

\* C4: for every operation, calculate(a, b) raises the ValueError "Both
\* inputs must be numbers." when a or b is not an int or a float, whichever
\* of the two it is; execute and log_result are not called.
C4_InvalidOperand ==
  (call.name = "calculate" /\ (~IsNumber(call.a) \/ ~IsNumber(call.b))) =>
    /\ Raises(InvalidOperand)
    /\ trace[1].e = "validate_inputs"
    /\ CallsOf(trace, {"execute", "log_result"}) = <<>>

C4_Witness ==
  /\ call.name = "calculate"
  /\ call.obj.t = "Addition"
  /\ call.a = IntV(1)
  /\ call.b = StrV(<<"a">>)
  /\ Raises(InvalidOperand)
  /\ StepsOf(trace) = <<"validate_inputs">>

\* the class the factory is to give each of its four names
ClassNamed(word) ==
  CASE word = NameAdd -> "Addition"
    [] word = NameSubtract -> "Subtraction"
    [] word = NameMultiply -> "Multiplication"
    [] word = NameDivide -> "Division"

\* C5: create_operation never raises; add, subtract, multiply and divide,
\* written in any mix of upper and lower case, give an Addition, a
\* Subtraction, a Multiplication and a Division; any other string gives None.
C5_FactoryTotal ==
  call.name = "create_operation" =>
    /\ ret.raised = NoExc
    /\ \A word \in OperationNames :
         call.arg.s \in Casings(word) => ret.value = Operation(ClassNamed(word))
    /\ (\A word \in OperationNames : call.arg.s \notin Casings(word)) =>
         ret.value = NoneV

C5_Witness ==
  /\ call.name = "create_operation"
  /\ call.arg = StrV(<<"M", "u", "l", "T", "i", "p", "l", "Y">>)
  /\ Returns(Operation("Multiplication"))

\* C9: __repr__ of a Calculation never raises and calls none of
\* validate_inputs, execute and log_result, whatever the operands, a zero
\* divisor included; __str__ of a Division of a number by 0 raises the
\* ValueError "Division by zero is not allowed.".
C9_ReprSafeStrFails ==
  /\ call.name = "__repr__" =>
       /\ ret.raised = NoExc
       /\ ret.value.t = "str"
       /\ CallsOf(trace, TemplateMethods) = <<>>
  /\ (call.name = "__str__" /\ call.obj.t = "Division"
        /\ IsNumber(call.a) /\ EqZero(call.b)) =>
       Raises(DivisionByZero)

C9_Witness ==
  /\ call.name = "__repr__"
  /\ call.obj.t = "Division"
  /\ call.a = IntV(1)
  /\ call.b = IntV(0)
  /\ Returns(StrV(<<"C", "a", "l", "c", "u", "l", "a", "t", "i", "o", "n", "(", "1", ",", " ", "d", "i", "v", "i", "s", "i", "o", "n", ",", " ", "0", ")">>))

\* C6: a call of perform_operation leaves the history one record longer; the
\* new last record is the calculation of that call (its operation and its
\* two operands), and the records held before keep their places.  This is
\* so whether the call then returns or raises.
C6_RecordAppends ==
  [][call'.name = "perform_operation" =>
       /\ Len(history') = Len(history) + 1
       /\ history'[Len(history')] = Calculation(call'.obj, call'.a, call'.b)
       /\ \A i \in 1..Len(history) : history'[i] = history[i]]_vars

C6_Witness ==
  /\ call.name = "perform_operation"
  /\ call.held = 1
  /\ Len(history) = 2
  /\ history[2] = Calculation(call.obj, call.a, call.b)
  /\ history[1] # history[2]

\* the observers the updates of a trace went to, in order
Notified(evs) ==
  [i \in 1..Len(CallsOf(evs, {"update"})) |-> CallsOf(evs, {"update"})[i].who]

\* the "clear" command was the last line typed
Cleared == call.name = "input" /\ lower(call.arg.s) = CmdClear

\* the "list" command was the last line typed
Listed == call.name = "input" /\ lower(call.arg.s) = CmdList

\* a command that typed an operation put a record in the history
Recorded == call.name = "input" /\ Len(history) > call.held

\* C7: the "clear" command leaves the history empty however many records it
\* held and leaves the observers as they were; "list" on an empty history
\* prints "No calculations in history."; and a record made by any command,
\* one typed after a "clear" included, is notified to the observers
\* registered at the start: to all of them when its result is printed.
C7_ClearEmpties ==
  /\ [](Cleared => /\ history = <<>>
                   /\ out = <<Stdout("History cleared.", <<>>)>>
                   /\ repl = "running")
  /\ []((Listed /\ history = <<>>) =>
          out = <<Stdout("No calculations in history.", <<>>)>>)
  /\ [][observers' = observers]_vars
  /\ [](Recorded => /\ Notified(trace) # <<>>
                    /\ Notified(trace)[1] = observers[1])
  /\ []((Recorded /\ out[1].who = "Result: ") => Notified(trace) = observers)

C7_Witness ==
  /\ Cleared
  /\ call.held = 2
  /\ history = <<>>
  /\ observers = <<"o1">>

\* C8: every call of add_observer adds its observer at the end of the list,
\* one it already holds included; and a call of perform_operation that
\* returns has called update once for each entry of the list, in the order
\* of the list, each time with the calculation of that call.
C8_NotifyEachInOrder ==
  /\ [][call'.name = "add_observer" =>
          observers' = Append(observers, call'.arg.s[1])]_vars
  /\ []((call.name = "perform_operation" /\ ret.raised = NoExc) =>
          /\ Notified(trace) = observers
          /\ \A i \in 1..Len(trace) :
               trace[i].e = "update" =>
                 /\ trace[i].cls = call.obj.t
                 /\ trace[i].a = call.a
                 /\ trace[i].b = call.b)

C8_Witness ==
  /\ call.name = "perform_operation"
  /\ ret.raised = NoExc
  /\ observers = <<"o2", "o1", "o2">>
  /\ Notified(trace) = <<"o2", "o1", "o2">>

\* C10: every construction of SingletonCalculator returns the one object;
\* the first gives the class an empty history and a later one leaves the
\* history as it is; a record made through any handle is added to that one
\* history; and clearing the list get_history returns empties it.
C10_Singleton ==
  /\ [](\A k \in 1..Len(handles) : handles[k] = handles[1] /\ handles[k] = instance)
  /\ [][call'.name = "SingletonCalculator" =>
          IF handles = <<>> THEN clsHistory' = <<>> ELSE clsHistory' = clsHistory]_vars
  /\ [][call'.name = "perform_operation" =>
          clsHistory' = Append(clsHistory, Calculation(call'.obj, call'.a, call'.b))]_vars
  /\ [][call'.name = "get_history().clear" => clsHistory' = <<>>]_vars

C10_Witness ==
  /\ call.name = "SingletonCalculator"
  /\ Len(handles) = 2
  /\ handles[2] = handles[1]
  /\ Len(clsHistory) = 1

\* the place of the first call of one of the methods named in a trace, or
\* one past its end when there is none
FirstCall(evs, names) ==
  IF \E i \in 1..Len(evs) : evs[i].e \in names
  THEN CHOOSE i \in 1..Len(evs) :
         evs[i].e \in names /\ \A j \in 1..(i - 1) : evs[j].e \notin names
  ELSE Len(evs) + 1

\* the places of the calls of update in a trace
UpdateCalls(evs) == {i \in 1..Len(evs) : evs[i].e = "update"}

\* a log line with the text named is in the trace
Logged(evs, text) == \E i \in 1..Len(evs) : evs[i] = LogLine(text)

\* the call was perform_operation of a Division of a number by zero
DividedByZero ==
  /\ call.name = "perform_operation"
  /\ call.obj.t = "Division"
  /\ IsNumber(call.a) /\ IsNumber(call.b) /\ EqZero(call.b)

\* C11 as stated: in perform_operation the append and the update of every
\* registered observer come before the first evaluation of the operation,
\* so a division by zero has notified all the observers when it fails.
C11_AllNotifiedBeforeEvaluation ==
  call.name = "perform_operation" =>
    /\ Notified(trace) = observers
    /\ \A i \in UpdateCalls(trace) : i < FirstCall(trace, TemplateMethods)

\* C11, amended: perform_operation appends the record, then calls update on
\* the first observer, and the operation is first evaluated inside that
\* update (with no observer: right after the append, for the log line of
\* perform_operation).  A division of a number by zero is in the history
\* when the ValueError reaches the caller; update was called on the first
\* observer only, which raised before it logged, and on no later observer.
C11_AppendThenFirstUpdateEvaluates ==
  call.name = "perform_operation" =>
    /\ trace[1].e = "append"
    /\ Len(history) = call.held + 1
    /\ history[Len(history)] = Calculation(call.obj, call.a, call.b)
    /\ observers = <<>> => FirstCall(trace, TemplateMethods) = 2
    /\ observers # <<>> =>
         /\ trace[2].e = "update" /\ trace[2].who = observers[1]
         /\ FirstCall(trace, TemplateMethods) = 3
    /\ \A i \in UpdateCalls(trace) : i > 2 => i > FirstCall(trace, TemplateMethods)
    /\ DividedByZero =>
         /\ Raises(DivisionByZero)
         /\ Notified(trace) = IF observers = <<>> THEN <<>> ELSE <<observers[1]>>
         /\ ~Logged(trace, "Observer: New calculation added")

C11_Witness ==
  /\ DividedByZero
  /\ observers = <<"o2", "o1">>
  /\ Notified(trace) = <<"o2">>
  /\ Len(history) = 2
  /\ Raises(DivisionByZero)

\* the record of the call cannot be rendered: its calculate raises
Unrenderable ==
  \/ ~IsNumber(call.a) \/ ~IsNumber(call.b)
  \/ call.obj.t = "Division" /\ EqZero(call.b)

\* the update of the i-th observer raises for the record of the call
UpdateRaises(i) == observers[i] = RaisingObserver \/ Unrenderable

\* the first observer whose update raises, or 0 when none does
FailingObserver ==
  IF \E i \in 1..Len(observers) : UpdateRaises(i)
  THEN CHOOSE i \in 1..Len(observers) :
         UpdateRaises(i) /\ \A j \in 1..(i - 1) : ~UpdateRaises(j)
  ELSE 0

\* how many log lines with the text named a trace holds
TimesLogged(evs, text) == Len(SelectSeq(evs, LAMBDA ev : ev = LogLine(text)))

\* C12: when the update of an observer raises during perform_operation,
\* the call raises what the observer raised; update was called on the
\* observers up to that one, in order, and on none after it; nothing of
\* perform_operation after the notification ran; and the record of the call
\* is the last of the history, after the records it held.
C12_ObserverFailurePropagates ==
  (call.name = "perform_operation" /\ FailingObserver > 0) =>
    /\ ret.value = NoneV
    /\ ret.raised = IF observers[FailingObserver] = RaisingObserver THEN ObserverError
                     ELSE IF IsNumber(call.a) /\ IsNumber(call.b) THEN DivisionByZero
                     ELSE InvalidOperand
    /\ Notified(trace) = SubSeq(observers, 1, FailingObserver)
    /\ TimesLogged(trace, "Notified observer about") = FailingObserver - 1
    /\ ~Logged(trace, "Performed operation")
    /\ Len(history) = call.held + 1
    /\ history[Len(history)] = Calculation(call.obj, call.a, call.b)

C12_Witness ==
  /\ call.name = "perform_operation"
  /\ call.obj.t = "Addition"
  /\ observers = <<"o1", RaisingObserver, "o2">>
  /\ Notified(trace) = <<"o1", RaisingObserver>>
  /\ ret.raised = ObserverError
  /\ Len(history) = 2

\* the line is one of the four commands
IsMetaCommand(line) == lower(line) \in {CmdHelp, CmdExit, CmdList, CmdClear}

\* the line is no command and is not an operation and two numerals: it has
\* not three words, or its second or third word is no numeral
IsMalformed(line) ==
  /\ ~IsMetaCommand(line)
  /\ \/ Len(split(line)) # 3
     \/ ~Ok(float(split(line)[2]))
     \/ ~Ok(float(split(line)[3]))

\* the line is a word that names no operation and two numerals
IsUnknownOperation(line) ==
  /\ ~IsMetaCommand(line)
  /\ Len(split(line)) = 3
  /\ Ok(float(split(line)[2])) /\ Ok(float(split(line)[3]))
  /\ lower(split(line)[1]) \notin OperationNames

MalformedLines == {line \in ReplLines : IsMalformed(line)}
UnknownOperationLines == {line \in ReplLines : IsUnknownOperation(line)}

\* the line typed last was malformed; named an unknown operation
Malformed == call.name = "input" /\ call.arg.s \in MalformedLines
UnknownOperation == call.name = "input" /\ call.arg.s \in UnknownOperationLines

InvalidInputLine ==
  Stdout("Invalid input. Please enter a valid operation and two numbers. Type 'help' for instructions.", <<>>)

\* nothing was recorded, evaluated or notified
NothingDone == CallsOf(trace, TemplateMethods \cup {"append", "update"}) = <<>>

\* C13: a line that is malformed (not three words, or an operand that is
\* no numeral) prints the "Invalid input..." message and nothing else; a
\* line of three words whose first names no operation prints "Unknown
\* operation '<name>'..." with the name as typed.  Either way the REPL goes
\* on, no record is made, nothing is evaluated, no observer is notified,
\* and the history and the observers are what they were.
C13_MalformedLeavesLedger ==
  /\ [](Malformed => /\ out = <<InvalidInputLine>>
                     /\ NothingDone
                     /\ repl = "running")
  /\ [](UnknownOperation =>
          /\ out = <<Stdout("Unknown operation '%s'. Type 'help' for available commands.",
                            split(call.arg.s)[1])>>
          /\ NothingDone
          /\ repl = "running")
  /\ [][(call'.name = "input"
            /\ call'.arg.s \in MalformedLines \cup UnknownOperationLines) =>
          (history' = history /\ observers' = observers)]_vars

C13_Witness ==
  /\ call.arg = StrV(<<"u", "n", "k", "n", "o", "w", "n", " ", "1", " ", "1">>)
  /\ UnknownOperation
  /\ call.held = 2
  /\ Len(history) = 2
  /\ out[1].r = StrV(<<"u", "n", "k", "n", "o", "w", "n">>)

\* the line typed last was "divide <a> <zero>"
DivideByZeroTyped == call.name = "input" /\ call.arg.s \in DivideByZeroLines

\* the float the line typed last gives as its first operand
DividendTyped ==
  (CHOOSE a \in Dividends : \E name \in {NameDivide, <<"D", "I", "V", "I", "D", "E">>}, z \in Zeros :
     call.arg.s = name \o <<" ">> \o a[1] \o <<" ">> \o z[1])[2]

\* C14: the line "divide <a> <zero>" prints the "Invalid input..." message
\* and no "Result:" line, and the REPL goes on to the next prompt; the
\* history is one record longer, the records it held in place, and the new
\* last record is the Division of a by zero, whose __str__ raises the
\* ValueError "Division by zero is not allowed.".
C14_DivideByZeroRecorded ==
  /\ [](DivideByZeroTyped =>
          /\ out = <<InvalidInputLine>>
          /\ \A i \in 1..Len(trace) : ~(trace[i].e = "print" /\ trace[i].who = "Result: ")
          /\ repl = "running"
          /\ Len(history) = call.held + 1
          /\ history[Len(history)].operation = Operation("Division")
          /\ history[Len(history)].operand1 = DividendTyped
          /\ history[Len(history)].operand2.t = "float"
          /\ EqZero(history[Len(history)].operand2)
          /\ Calculation_str(history[Len(history)]).raised = DivisionByZero)
  /\ [][(call'.name = "input" /\ call'.arg.s \in DivideByZeroLines) =>
          /\ Len(history') = Len(history) + 1
          /\ \A i \in 1..Len(history) : history'[i] = history[i]]_vars

C14_Witness ==
  /\ call.arg = StrV(<<"d", "i", "v", "i", "d", "e", " ", "-", "1", ".", "5", " ", "0", ".", "0">>)
  /\ DivideByZeroTyped
  /\ out = <<InvalidInputLine>>
  /\ repl = "running"
  /\ Len(history) = 2
  /\ history[2] = Calculation(Operation("Division"), FloatV(-3, 2, FALSE), FloatV(0, 1, FALSE))

\* the line typed last was "add 5 3" or "ADD 5 3", on an empty history
AddTyped ==
  /\ call.name = "input"
  /\ call.arg.s \in {<<"a", "d", "d", " ", "5", " ", "3">>, <<"A", "D", "D", " ", "5", " ", "3">>}
  /\ call.held = 0

\* C15 as stated: after "add 5 3" on an empty history the history holds one
\* record, "Result: 8.0" is printed, and __str__ of the record is
\* "5.0 add 3.0 = 8.0", with the name the operation was resolved by.
C15_RendersResolvedName ==
  AddTyped =>
    /\ Len(history) = 1
    /\ out = <<Stdout("Result: ", <<"8", ".", "0">>)>>
    /\ Calculation_str(history[1]).value
         = StrV(<<"5", ".", "0", " ", "a", "d", "d", " ", "3", ".", "0", " ", "=", " ", "8", ".", "0">>)

\* C15, amended: after "add 5 3" on an empty history the history holds one
\* record, the Addition of 5.0 and 3.0, "Result: 8.0" is printed, and
\* __str__ of the record is "5.0 addition 3.0 = 8.0": the operation shows as
\* the name of its class in lower case, however the name was typed.  "list"
\* prints that text for the record.
C15_RendersClassName ==
  /\ AddTyped =>
       /\ history = <<Calculation(Operation("Addition"), FloatV(5, 1, FALSE), FloatV(3, 1, FALSE))>>
       /\ out = <<Stdout("Result: ", <<"8", ".", "0">>)>>
       /\ Calculation_str(history[1]).raised = NoExc
       /\ Calculation_str(history[1]).value
            = StrV(<<"5", ".", "0", " ", "a", "d", "d", "i", "t", "i", "o", "n", " ", "3", ".", "0", " ", "=", " ", "8", ".", "0">>)
  /\ (Listed /\ history = <<Calculation(Operation("Addition"), FloatV(5, 1, FALSE),
                                       FloatV(3, 1, FALSE))>>) =>
       out = <<Stdout("", <<"5", ".", "0", " ", "a", "d", "d", "i", "t", "i", "o", "n", " ", "3", ".", "0", " ", "=", " ", "8", ".", "0">>)>>

C15_Witness ==
  /\ AddTyped
  /\ call.arg.s[1] = "a"
  /\ Len(history) = 1
  /\ out = <<Stdout("Result: ", <<"8", ".", "0">>)>>

\* C16: calculate on an operand that is nan, inf or -inf raises the
\* ValueError "Both inputs must be numbers." from validate_inputs, for
\* every operation, and execute is not called; float() gives such values
\* for the texts "nan", "inf" and "infinity".
C16_NonFiniteRejected ==
  /\ (call.name = "calculate" /\ (call.a \in NonFinite \/ call.b \in NonFinite)) =>
       /\ Raises(InvalidOperand)
       /\ StepsOf(trace) = <<"validate_inputs">>
  /\ (call.name = "float" /\ lower(call.arg.s) \in {<<"n", "a", "n">>, <<"i", "n", "f">>,
                                                       <<"-", "i", "n", "f">>}) =>
       Returns(ret.value) /\ ret.value \in NonFinite

\* C17: whatever lines were typed, no exception leaves the loop of
\* calculator(): each line is answered and the REPL goes on to the next,
\* and the line "exit" prints "Exiting calculator..." and ends it normally.
C17_ReplNeverCrashes ==
  /\ repl \in {"running", "exited"}
  /\ call.name = "input" => ret.raised = NoExc
  /\ (call.name = "input" /\ lower(call.arg.s) = CmdExit) =>
       /\ repl = "exited"
       /\ out = <<Stdout("Exiting calculator...", <<>>)>>

\* the list after is the list before, or the list before with one record
\* more at its end, or empty
AppendedOrCleared(before, after) ==
  \/ after = before
  \/ Len(after) = Len(before) + 1 /\ SubSeq(after, 1, Len(before)) = before
  \/ after = <<>>

\* C18: every step, a line typed at the REPL or a call of perform_operation,
\* leaves the history as it was, or one record longer with the records it
\* held in place, or empty; the same for the history of SingletonCalculator.
C18_AppendOrClearOnly ==
  [][/\ AppendedOrCleared(history, history')
     /\ AppendedOrCleared(clsHistory, clsHistory')]_vars

C18_Witness ==
  /\ call.name = "input"
  /\ call.arg = StrV(<<"d", "i", "v", "i", "d", "e", " ", "5", " ", "0">>)
  /\ call.held = 1
  /\ Len(history) = 2
  /\ history[1].operation = Operation("Multiplication")
  /\ history[2].operation = Operation("Division")

\* the i-th evaluation of a trace: its calls of validate_inputs, execute
\* and log_result
Evaluation(evs, i) == SubSeq(CallsOf(evs, TemplateMethods), 3 * i - 2, 3 * i)

\* the three calls are one full calculate of the record c
FullCalculate(steps, c) ==
  /\ Len(steps) = 3
  /\ <<steps[1].e, steps[2].e, steps[3].e>> = <<"validate_inputs", "execute", "log_result">>
  /\ \A k \in 1..3 : /\ steps[k].cls = c.operation.t
                      /\ steps[k].a = c.operand1
                      /\ steps[k].b = c.operand2

\* the place of the first division by zero in a history
FirstUnrenderable(h) ==
  CHOOSE i \in 1..(Len(h) + 1) :
    /\ i <= Len(h) => (h[i].operation.t = "Division" /\ EqZero(h[i].operand2))
    /\ \A j \in 1..(i - 1) : ~(h[j].operation.t = "Division" /\ EqZero(h[j].operand2))

\* C19: no record keeps its result.  Each line "list" prints was made by a
\* full calculate (validate_inputs, execute, log_result) of that record on
\* its stored operands, run for that line; listing again runs the same
\* calls again and prints the same lines; and no step, a listing, an
\* operation with its notification, or any other line, changes the
\* operation or the operands of a record the history keeps.
C19_NoCacheNoChange ==
  /\ []((Listed /\ history # <<>>) =>
          /\ Len(out) = IF repl = "running" THEN Len(history)
                        ELSE FirstUnrenderable(history) - 1
          /\ Len(CallsOf(trace, TemplateMethods))
               = IF repl = "running" THEN 3 * Len(out) ELSE 3 * Len(out) + 2
          /\ \A i \in 1..Len(out) : FullCalculate(Evaluation(trace, i), history[i]))
  /\ [][(Listed /\ Listed') => (out' = out /\ trace' = trace)]_vars
  /\ [][\A i \in 1..Len(history') : i <= Len(history) => history'[i] = history[i]]_vars

C19_Witness ==
  /\ Listed
  /\ call.arg.s[1] = "L"
  /\ Len(history) = 2
  /\ Len(out) = 2
  /\ history[1] = history[2]
  /\ Len(CallsOf(trace, TemplateMethods)) = 6

\* what each entry of a trace is: the method called, or the text logged
Kinds(evs) == [i \in 1..Len(evs) |-> IF evs[i].e = "log" THEN evs[i].who ELSE evs[i].e]

\* one evaluation of the operation: the template's three steps and the log
\* line of log_result
OneEvaluation == <<"validate_inputs", "execute", "log_result", "Operation performed">>

\* what notify_observers does for one HistoryObserver
OneNotification ==
  <<"update">> \o OneEvaluation \o <<"Observer: New calculation added">>
    \o OneEvaluation \o <<"Notified observer about">>

RECURSIVE Times(_, _)
Times(seq, k) == IF k = 0 THEN <<>> ELSE seq \o Times(seq, k - 1)

\* C20: a call of perform_operation that returns, with k HistoryObservers
\* registered, has run calculate on the operands of the call 2k + 2 times:
\* after the append, for each observer once in its update and once for the
\* "Notified observer" log line, then once for the "Performed operation"
\* log line and once for the value returned, which every one of them
\* computed.  With no observer, a division by zero raises in the evaluation
\* for the "Performed operation" line, the record already appended.
C20_EvaluatesTwiceAndTwicePerObserver ==
  /\ (call.name = "perform_operation" /\ ret.raised = NoExc) =>
       /\ Kinds(trace) = <<"append">> \o Times(OneNotification, Len(observers))
                            \o OneEvaluation \o <<"Performed operation">> \o OneEvaluation
       /\ Len(CallsOf(trace, {"execute"})) = 2 * Len(observers) + 2
       /\ \A i \in 1..Len(trace) :
            trace[i].e \in TemplateMethods =>
              /\ trace[i].cls = call.obj.t
              /\ trace[i].a = call.a
              /\ trace[i].b = call.b
              /\ trace[i].e = "log_result" => trace[i].r = ret.value
  /\ (DividedByZero /\ observers = <<>>) =>
       /\ Raises(DivisionByZero)
       /\ Kinds(trace) = <<"append", "validate_inputs", "execute",
                            "Attempted to divide by zero.">>
       /\ Len(history) = call.held + 1
       /\ history[Len(history)] = Calculation(call.obj, call.a, call.b)

C20_Witness ==
  /\ call.name = "perform_operation"
  /\ ret.raised = NoExc
  /\ Len(observers) = 3
  /\ Len(CallsOf(trace, {"execute"})) = 8

=============================================================================
